---- MODULE Spec2Model ----
(***************************************************************************)
(* Rate limiting, conversation/message append and the streaming chat       *)
(* protocol of the FastAPI chat service (services/rate_limit.py,           *)
(* services/chat_service.py, services/llm_service.py, routes/chats).       *)
(*                                                                         *)
(* The persistent store is the committed tables; every chat request has a  *)
(* session of its own whose flushed-but-uncommitted rows live in the       *)
(* request record (pend) until a commit publishes them or a rollback       *)
(* drops them.  Time is in whole seconds of the UTC clock.  Server-side    *)
(* defaults func.now() are PostgreSQL's now(): the start time of the       *)
(* session's current transaction.                                          *)
(***************************************************************************)
EXTENDS Integers, Sequences, FiniteSets, TLC

\* ---------------------------------------------------------------- bounds

MaxRequests == 2
MaxInFlight == 2
MaxReads == 1
MaxMessageWords == 6

\* ------------------------------------------------------ program constants

SecondsPerDay == 86400
SecondsPerMinute == 60
FreeRequestsPerMinute == 5
FreeRequestsPerDay == 100
NoEnd == -1
NoConversationId == -1
NoTx == -1
TitleWords == 5
TitleMaxLen == 50
TitleCutLen == 47

\* ----------------------------------------------------------- input domains

Users == {1, 2}
\* The users the identity provider regards as administrators.  The users table
\* has no column for it and check_rate_limit is given none: no action reads
\* this set.
Admins == {1}
Slots == 1..MaxInFlight
Midnight == SecondsPerDay
\* The instants the clock visits: 23:58:59, 23:59:59 and 00:00:00 of the next
\* day (60 and 61 seconds after the first, 1 second after the second).
Instants == {Midnight - 61, Midnight - 1, Midnight}
StartTime == Midnight - 61
Texts == {<<"h", "i">>}
\* request.conversation_id: absent, the conversation of user 1, no conversation
ConversationArgs == {NoConversationId, 1, 9}
\* The conversation_id of GET /conversations/{id}: the seeded conversation and
\* the first one a request creates (no conversation before that)
ReadArgs == {1, 2}

\* What self.llm.astream / self.llm.ainvoke does in one call: the raw chunks it
\* produces, and whether it raises after them.
Backends ==
    { [chunks |-> << <<"H", "e", "l">>, <<>>, <<"l", "o">> >>, fail |-> FALSE],
      [chunks |-> << <<"H", "e", "l">> >>, fail |-> TRUE],
      [chunks |-> <<>>, fail |-> TRUE] }

NoBackend == [chunks |-> <<>>, fail |-> FALSE]

VARIABLES
    now,      \* the UTC clock, seconds
    plans,    \* subscription_plans rows
    subs,     \* user_subscriptions rows
    logs,     \* request_logs rows
    convs,    \* conversations rows
    msgs,     \* messages rows
    seq,      \* the tables' id sequences (never rolled back)
    nreq,     \* chat requests issued so far
    req,      \* per slot: the chat request being handled there (or the last one)
    view,     \* the answer of GET or DELETE /conversations/{id} since the last chat request
    titled,   \* the last call of generate_conversation_title: input and title
    accounts  \* users rows: email_verified, and the answer of the last verification

vars == <<now, plans, subs, logs, convs, msgs, seq, nreq, req, view, titled, accounts>>

\* ------------------------------------------------------------------ helpers

RECURSIVE Flatten(_)
Flatten(ss) == IF ss = <<>> THEN <<>> ELSE Head(ss) \o Flatten(Tail(ss))

RECURSIVE SortById(_)
\* The rows of a set as a sequence in id order.
SortById(S) ==
    IF S = {} THEN <<>>
    ELSE LET m == CHOOSE x \in S : \A y \in S : x.id <= y.id
         IN <<m>> \o SortById(S \ {m})

RECURSIVE Orderings(_)
\* The sequences a SELECT without ORDER BY can return for a set of rows.
Orderings(S) ==
    IF S = {} THEN {<<>>}
    ELSE UNION {{<<x>> \o t : t \in Orderings(S \ {x})} : x \in S}

EmptyPend == [convs |-> {}, msgs |-> {}, logs |-> {}]

IdleReq ==
    [id |-> 0, pc |-> "idle", user |-> 0, stream |-> FALSE,
     convArg |-> NoConversationId, message |-> <<>>, admit |-> "none",
     tx |-> NoTx, freeSeen |-> 0, plan |-> 0, conv |-> 0, convNew |-> FALSE,
     loaded |-> <<>>, pend |-> EmptyPend, umsg |-> 0, amsg |-> 0,
     ctx |-> <<>>, backend |-> NoBackend, full |-> <<>>, events |-> <<>>,
     status |-> 0, calls |-> 0, failedAt |-> "none", exc |-> "none",
     limit |-> 0, script |-> NoBackend, formatted |-> <<>>,
     titleReply |-> [fail |-> FALSE, content |-> <<>>]]

InFlight(q) == q.pc \notin {"idle", "done"}

\* The session's transaction: a statement opens one if none is open.
TxBegin(q) == IF q.tx = NoTx THEN now ELSE q.tx

\* ------------------------------------ LLMService.generate_conversation_title

\* Strings are sequences of characters.
Whitespace == {" ", "\t", "\n"}

RECURSIVE SplitFrom(_, _)
\* str.split(): the maximal runs of non-whitespace characters; cur is the run
\* being read.
SplitFrom(str, cur) ==
    IF str = <<>> THEN (IF cur = <<>> THEN <<>> ELSE <<cur>>)
    ELSE IF Head(str) \in Whitespace
         THEN (IF cur = <<>> THEN <<>> ELSE <<cur>>) \o SplitFrom(Tail(str), <<>>)
         ELSE SplitFrom(Tail(str), Append(cur, Head(str)))

Split(str) == SplitFrom(str, <<>>)

RECURSIVE Join(_)
\* " ".join(words)
Join(words) ==
    IF words = <<>> THEN <<>>
    ELSE IF Len(words) = 1 THEN words[1]
    ELSE words[1] \o <<" ">> \o Join(Tail(words))

\* xs[:n]
Take(xs, n) == SubSeq(xs, 1, IF Len(xs) < n THEN Len(xs) ELSE n)

RECURSIVE StripLeft(_)
StripLeft(str) ==
    IF str # <<>> /\ Head(str) \in Whitespace THEN StripLeft(Tail(str)) ELSE str

RECURSIVE StripRight(_)
StripRight(str) ==
    IF str # <<>> /\ str[Len(str)] \in Whitespace
    THEN StripRight(SubSeq(str, 1, Len(str) - 1))
    ELSE str

\* str.strip()
Strip(str) == StripRight(StripLeft(str))

Ellipsis == <<".", ".", ".">>

\* The cut that keeps 50 characters before the dots.
TruncateKeepsAll(title) ==
    IF Len(title) > TitleMaxLen THEN Take(title, TitleMaxLen) \o Ellipsis ELSE title

\* if len(title) > 50: title = title[:47] + "..."
Truncate(title) ==
    IF Len(title) > TitleMaxLen THEN Take(title, TitleCutLen) \o Ellipsis ELSE title

Placeholder ==
    <<"N", "e", "w", " ", "C", "o", "n", "v", "e", "r", "s", "a", "t", "i", "o", "n">>

\* The except branch: the first five words, joined, cut; "New Conversation"
\* when that is empty.
FallbackTitle(message) ==
    LET title == Truncate(Join(Take(Split(message), TitleWords)))
    IN IF title = <<>> THEN Placeholder ELSE title

\* The title call without its except branch: whatever came back, cut.
GenerateConversationTitleUnguarded(message, reply) ==
    IF reply.fail THEN <<>> ELSE Truncate(Strip(reply.content))

\* generate_conversation_title: reply is what self.llm.ainvoke does (it raises,
\* or returns a text); an empty title raises into the except branch.
GenerateConversationTitle(message, reply) ==
    IF reply.fail \/ Strip(reply.content) = <<>>
    THEN FallbackTitle(message)
    ELSE Truncate(Strip(reply.content))

\* The replies of the title call in a chat request: an error, nothing but
\* whitespace, a short title.
TitleReplies ==
    { [fail |-> TRUE, content |-> <<>>],
      [fail |-> FALSE, content |-> <<" ", "\n">>],
      [fail |-> FALSE, content |-> <<" ", "T", "\n">>] }

\* ------------------------------------------------------------ time windows

\* A rolling 24-hour day instead of the UTC calendar day.
TodayStartRolling(t) == t - SecondsPerDay

\* datetime.utcnow().replace(hour=0, minute=0, second=0, microsecond=0)
TodayStart(t) == t - (t % SecondsPerDay)

\* The calendar minute instead of the last 60 seconds.
MinuteAgoCalendar(t) == t - (t % SecondsPerMinute)

\* datetime.utcnow() - timedelta(minutes=1)
MinuteAgo(t) == t - SecondsPerMinute

DailyCount(u, t) ==
    Cardinality({l \in logs : l.user = u /\ l.at >= TodayStart(t)})

MinuteCount(u, t) ==
    Cardinality({l \in logs : l.user = u /\ l.at >= MinuteAgo(t)})

\* The WHERE clause with a subscription still in force at its end date.
CurrentlyActiveThroughEnd(s, u, t) ==
    /\ s.user = u
    /\ s.active
    /\ s.start <= t
    /\ (s.end = NoEnd \/ s.end >= t)

\* The WHERE clause of the subscription query.
CurrentlyActive(s, u, t) ==
    /\ s.user = u
    /\ s.active
    /\ s.start <= t
    /\ (s.end = NoEnd \/ s.end > t)

ActiveSubscriptions(u, t) ==
    {s \in subs : CurrentlyActive(s, u, t) /\ \E p \in plans : p.id = s.plan}

PlanOf(id) == CHOOSE p \in plans : p.id = id

\* The lookup by another spelling of the name.
FreePlansLowercase == {p \in plans : p.name = "free"}

FreePlans == {p \in plans : p.name = "Free"}

\* --------------------------------------------------------------------- Init

TightPlan == [id |-> 1, name |-> "Tight", rpm |-> 1, rpd |-> 2, price |-> 1]
EvenPlan == [id |-> 1, name |-> "Even", rpm |-> 2, rpd |-> 2, price |-> 1]
SeedFreePlan ==
    [id |-> 2, name |-> "Free", rpm |-> FreeRequestsPerMinute,
     rpd |-> FreeRequestsPerDay, price |-> 0]

SeedSubscription ==
    [id |-> 1, user |-> 1, plan |-> 1, start |-> 0, end |-> NoEnd,
     active |-> TRUE, created |-> 0]

SeedConversations ==
    { [id |-> 1, user |-> 1, title |-> <<"s", "e", "e", "d">>, req |-> 0] }

SeedMessages ==
    { [id |-> 1, conv |-> 1, kind |-> "system", content |-> <<"s">>, at |-> 0, req |-> 0] }

\* A request of user 1 logged a second before the run starts.
SeedLog == [id |-> 1, user |-> 1, at |-> StartTime - 1, req |-> 0]

\* No GET /conversations/{id} answered yet; no title derived yet.
NoView ==
    [op |-> "none", user |-> 0, conv |-> 0, status |-> 0, messages |-> <<>>,
     n |-> 0, after |-> 0]
NoReply == [fail |-> FALSE, content |-> <<>>]
NoTitled ==
    [message |-> <<>>, words |-> <<>>, reply |-> NoReply, called |-> FALSE,
     title |-> <<>>]

\* The tables at the start: user 1 subscribed to a paid plan or (the
\* subscription row deleted) to none, user 2 to none; the Free plan present or
\* not yet created.
InitStore ==
    /\ now = StartTime
    /\ \E paid \in {TightPlan, EvenPlan}, free \in SUBSET {SeedFreePlan} :
           plans = {paid} \cup free
    /\ subs \in {{SeedSubscription}, {}}
    /\ logs = {SeedLog}
    /\ convs = SeedConversations
    /\ msgs = SeedMessages
    /\ seq = [plan |-> 2, sub |-> 1, log |-> 1, conv |-> 1, msg |-> 1]
    /\ nreq = 0
    /\ req = [s \in Slots |-> IdleReq]
    /\ view = NoView

\* A users row: email_verified, and the status of the last answer of
\* GET /auth/verify-email for that user (0: never asked).
VerifiedAccount == [verified |-> TRUE, verify |-> 0]
UnverifiedAccount == [verified |-> FALSE, verify |-> 0]

Init ==
    /\ InitStore
    /\ titled = NoTitled
    /\ accounts = [u \in Users |-> VerifiedAccount]

\* ------------------------------------------------------------------- clock

\* Time passes while a request waits for the generation backend (and until
\* the next request arrives, see Begin); at the clock's granularity a database
\* round trip takes no time.
Tick(t) ==
    /\ t > now
    /\ \E s \in Slots : req[s].pc \in {"gen", "open"}
    /\ \A s \in Slots : req[s].pc \in {"idle", "done", "gen", "open"}
    /\ now' = t
    /\ UNCHANGED <<plans, subs, logs, convs, msgs, seq, nreq, view, titled, req, accounts>>

\* ----------------------------------------------------------- request start

\* A chat request arrives at instant t (POST /chat or POST /chat/stream);
\* get_current_user has run the session's first statement.  An answer read
\* before the request is no longer looked at.  The bearer token comes from
\* POST /auth/login, which refuses an account whose email is not verified.
Begin(s, t, u, st, c, m) ==
    /\ nreq < MaxRequests
    /\ accounts[u].verified
    /\ t >= now
    /\ now' = t
    /\ ~InFlight(req[s])
    /\ \A r \in Slots : r < s => InFlight(req[r])
    /\ nreq' = nreq + 1
    /\ req' = [req EXCEPT ![s] =
                 [IdleReq EXCEPT !.id = nreq + 1, !.pc = "check", !.user = u,
                                 !.stream = st, !.convArg = c, !.message = m,
                                 !.tx = t]]
    /\ view' = NoView
    /\ UNCHANGED <<plans, subs, logs, convs, msgs, seq, titled, accounts>>

\* Requests one after the other: none is in flight when the next arrives.
StartRequest(s, t, u, st, c, m) ==
    /\ \A r \in Slots : ~InFlight(req[r])
    /\ Begin(s, t, u, st, c, m)

\* ------------------------------------------------------- errors and sessions

\* chat_with_llm's except clauses: the status an exception leaving
\* process_chat_request becomes.  check_rate_limit raises fastapi's
\* HTTPException, which none of the specific clauses names.
ChatStatus(exc) ==
    CASE exc = "DailyLimitExceededException" -> 429
      [] exc = "MinuteLimitExceededException" -> 429
      [] exc = "NoActiveSubscriptionException" -> 402
      [] exc = "ValueError: Conversation not found" -> 404
      [] exc = "ValueError" -> 400
      [] OTHER -> 500

\* chat_with_llm_stream returns the StreamingResponse before the generator
\* runs: the response has started when the generator's body first executes.
StreamStatus == 200

\* The request's session is closed when the request ends: rows that were
\* flushed but not committed are gone.
CloseSession(q) == [q EXCEPT !.pend = EmptyPend, !.tx = NoTx]

\* A rollback that discards nothing.
RollbackKeepsRows(q) == q

\* await db.rollback()
Rollback(q) == [q EXCEPT !.pend = EmptyPend, !.tx = NoTx]

\* An exception raised before the try block of process_chat_request /
\* process_chat_request_stream: it leaves the service as it is; the streaming
\* generator ends without having yielded anything.
RaiseOutsideTry(q, exc, at) ==
    [CloseSession(q) EXCEPT !.pc = "done", !.failedAt = at, !.exc = exc,
        !.status = IF q.stream THEN StreamStatus ELSE ChatStatus(exc)]

\* What the caller does with check_rate_limit's return value: the value is
\* dropped, the request goes on to the conversation.
AfterAdmission(ret) == "conv"

\* ----------------------------------------------- RateLimitService.check_rate_limit

\* A denial for a limit raises fastapi's HTTPException(429) whose detail names
\* the plan's limit (limit in the request record); the exception's text is part
\* of whatever answer the router makes of it.

\* The subscription query and result.first(); the query has no ORDER BY.
CheckSubscription(s) ==
    LET q == req[s]
        act == ActiveSubscriptions(q.user, now)
    IN /\ q.pc = "check"
       /\ \/ /\ act = {}
             /\ req' = [req EXCEPT ![s] = [q EXCEPT !.pc = "ensure", !.tx = TxBegin(q)]]
          \/ \E sb \in act :
                req' = [req EXCEPT ![s] =
                          [q EXCEPT !.pc = "daily", !.plan = sb.plan, !.tx = TxBegin(q)]]
       /\ UNCHANGED <<now, plans, subs, logs, convs, msgs, seq, nreq, view, titled, accounts>>

\* The minute count looked at first, the daily count after it.
CheckDailyAfterMinute(s) ==
    LET q == req[s]
        plan == PlanOf(q.plan)
    IN /\ q.pc = "daily"
       /\ req' = [req EXCEPT ![s] =
                    IF MinuteCount(q.user, now) >= plan.rpm
                    THEN [RaiseOutsideTry(q, "HTTPException", "admission")
                             EXCEPT !.admit = "minute", !.limit = plan.rpm]
                    ELSE IF DailyCount(q.user, now) >= plan.rpd
                    THEN [RaiseOutsideTry(q, "HTTPException", "admission")
                             EXCEPT !.admit = "daily", !.limit = plan.rpd]
                    ELSE [q EXCEPT !.pc = "minute"]]
       /\ UNCHANGED <<now, plans, subs, logs, convs, msgs, seq, nreq, view, titled, accounts>>

CheckDaily(s) ==
    LET q == req[s]
        plan == PlanOf(q.plan)
    IN /\ q.pc = "daily"
       /\ req' = [req EXCEPT ![s] =
                    IF DailyCount(q.user, now) >= plan.rpd
                    THEN [RaiseOutsideTry(q, "HTTPException", "admission")
                             EXCEPT !.admit = "daily", !.limit = plan.rpd]
                    ELSE [q EXCEPT !.pc = "minute"]]
       /\ UNCHANGED <<now, plans, subs, logs, convs, msgs, seq, nreq, view, titled, accounts>>

\* Usage recorded when the request is admitted.
CheckMinuteRecordsUsage(s) ==
    LET q == req[s]
        plan == PlanOf(q.plan)
        denied == MinuteCount(q.user, now) >= plan.rpm
        lg == [id |-> seq.log + 1, user |-> q.user, at |-> TxBegin(q), req |-> q.id]
    IN /\ q.pc = "minute"
       /\ req' = [req EXCEPT ![s] =
                    IF denied
                    THEN [RaiseOutsideTry(q, "HTTPException", "admission")
                             EXCEPT !.admit = "minute", !.limit = plan.rpm]
                    ELSE [q EXCEPT !.admit = "true", !.pc = "conv", !.tx = NoTx]]
       /\ logs' = IF denied THEN logs ELSE logs \cup {lg}
       /\ seq' = IF denied THEN seq ELSE [seq EXCEPT !.log = @ + 1]
       /\ UNCHANGED <<now, plans, subs, convs, msgs, nreq, view, titled, accounts>>

\* The comparison with > in place of >=.
CheckMinuteStrict(s) ==
    LET q == req[s]
        plan == PlanOf(q.plan)
    IN /\ q.pc = "minute"
       /\ req' = [req EXCEPT ![s] =
                    IF MinuteCount(q.user, now) > plan.rpm
                    THEN [RaiseOutsideTry(q, "HTTPException", "admission")
                             EXCEPT !.admit = "minute", !.limit = plan.rpm]
                    ELSE [q EXCEPT !.admit = "true", !.pc = AfterAdmission(TRUE)]]
       /\ UNCHANGED <<now, plans, subs, logs, convs, msgs, seq, nreq, view, titled, accounts>>

CheckMinute(s) ==
    LET q == req[s]
        plan == PlanOf(q.plan)
    IN /\ q.pc = "minute"
       /\ req' = [req EXCEPT ![s] =
                    IF MinuteCount(q.user, now) >= plan.rpm
                    THEN [RaiseOutsideTry(q, "HTTPException", "admission")
                             EXCEPT !.admit = "minute", !.limit = plan.rpm]
                    ELSE [q EXCEPT !.admit = "true", !.pc = AfterAdmission(TRUE)]]
       /\ UNCHANGED <<now, plans, subs, logs, convs, msgs, seq, nreq, view, titled, accounts>>

\* ----------------------------------------------- RateLimitService._ensure_free_plan

\* select(SubscriptionPlan).where(name == "Free"); scalar_one_or_none() raises
\* when more than one row matches.
EnsureLookup(s) ==
    LET q == req[s]
    IN /\ q.pc = "ensure"
       /\ req' = [req EXCEPT ![s] =
                    IF Cardinality(FreePlans) > 1
                    THEN RaiseOutsideTry(q, "MultipleResultsFound", "admission")
                    ELSE [q EXCEPT !.pc = "provision", !.tx = TxBegin(q),
                             !.freeSeen = IF FreePlans = {} THEN 0
                                          ELSE (CHOOSE p \in FreePlans : TRUE).id]]
       /\ UNCHANGED <<now, plans, subs, logs, convs, msgs, seq, nreq, view, titled, accounts>>

NewFreePlan(id) ==
    [id |-> id, name |-> "Free", rpm |-> FreeRequestsPerMinute,
     rpd |-> FreeRequestsPerDay, price |-> 0]

\* A subscription that ends the moment it starts.
NewSubscriptionEnded(id, u, planId, t) ==
    [id |-> id, user |-> u, plan |-> planId, start |-> t, end |-> t,
     active |-> TRUE, created |-> t]

NewSubscription(id, u, planId, t) ==
    [id |-> id, user |-> u, plan |-> planId, start |-> t, end |-> NoEnd,
     active |-> TRUE, created |-> t]

\* Provisioning that flushes and leaves the commit to the request: the rows
\* take their ids and are published by no step of their own.
ProvisionUncommitted(s) ==
    LET q == req[s]
        create == q.freeSeen = 0
    IN /\ q.pc = "provision"
       /\ seq' = [seq EXCEPT !.plan = IF create THEN @ + 1 ELSE @, !.sub = @ + 1]
       /\ req' = [req EXCEPT ![s] =
                    [q EXCEPT !.tx = TxBegin(q), !.admit = "false",
                              !.pc = AfterAdmission(FALSE)]]
       /\ UNCHANGED <<now, plans, subs, logs, convs, msgs, nreq, view, titled, accounts>>

\* Provisioning that looks again before it inserts: a user who has an active
\* subscription by now gets no second one.
ProvisionUnlessSubscribed(s) ==
    LET q == req[s]
        create == q.freeSeen = 0
        planId == IF create THEN seq.plan + 1 ELSE q.freeSeen
        insert == ActiveSubscriptions(q.user, now) = {}
    IN /\ q.pc = "provision"
       /\ plans' = IF create THEN plans \cup {NewFreePlan(planId)} ELSE plans
       /\ subs' = IF insert
                  THEN subs \cup {NewSubscription(seq.sub + 1, q.user, planId, TxBegin(q))}
                  ELSE subs
       /\ seq' = [seq EXCEPT !.plan = IF create THEN @ + 1 ELSE @,
                             !.sub = IF insert THEN @ + 1 ELSE @]
       /\ convs' = convs \cup q.pend.convs
       /\ msgs' = msgs \cup q.pend.msgs
       /\ logs' = logs \cup q.pend.logs
       /\ req' = [req EXCEPT ![s] =
                    [q EXCEPT !.pend = EmptyPend, !.tx = NoTx, !.admit = "false",
                              !.pc = AfterAdmission(FALSE)]]
       /\ UNCHANGED <<now, nreq, view, titled, accounts>>

\* The Free plan is inserted when the lookup found none; the subscription is
\* inserted and the session committed.  check_rate_limit then returns False.
Provision(s) ==
    LET q == req[s]
        create == q.freeSeen = 0
        planId == IF create THEN seq.plan + 1 ELSE q.freeSeen
    IN /\ q.pc = "provision"
       /\ plans' = IF create THEN plans \cup {NewFreePlan(planId)} ELSE plans
       /\ subs' = subs \cup {NewSubscription(seq.sub + 1, q.user, planId, TxBegin(q))}
       /\ seq' = [seq EXCEPT !.plan = IF create THEN @ + 1 ELSE @, !.sub = @ + 1]
       /\ convs' = convs \cup q.pend.convs
       /\ msgs' = msgs \cup q.pend.msgs
       /\ logs' = logs \cup q.pend.logs
       /\ req' = [req EXCEPT ![s] =
                    [q EXCEPT !.pend = EmptyPend, !.tx = NoTx, !.admit = "false",
                              !.pc = AfterAdmission(FALSE)]]
       /\ UNCHANGED <<now, nreq, view, titled, accounts>>

\* ------------------------------------------------------------- ChatService

Event(type, conv, msg, content) ==
    [type |-> type, conv |-> conv, msg |-> msg, content |-> content]

\* self.system_message
SystemMessage == [role |-> "system", content |-> <<"S">>]

\* LLMService.format_conversation_for_llm
FormatConversationForLlm(messages) ==
    [i \in 1..Len(messages) |->
        [role |-> IF messages[i].kind = "system" THEN "system"
                  ELSE IF messages[i].kind = "user" THEN "user" ELSE "assistant",
         content |-> messages[i].content]]

\* ChatService._add_system_message_to_formatted_messages
AddSystemMessage(fm) ==
    IF fm # <<>> /\ fm[1].role = "system"
    THEN [fm EXCEPT ![1] = SystemMessage]
    ELSE <<SystemMessage>> \o fm

\* An except clause that calls the backend again after a generation failure.
FailInsideTryRetrying(q, at) ==
    IF at = "generation"
    THEN [q EXCEPT !.pc = IF q.stream THEN "open" ELSE "gen"]
    ELSE [Rollback(q) EXCEPT !.pc = "done", !.failedAt = at, !.exc = "Exception",
             !.status = IF q.stream THEN StreamStatus ELSE ChatStatus("Exception"),
             !.events = IF q.stream THEN Append(q.events, Event("error", 0, 0, <<>>))
                        ELSE q.events]

\* An exception caught by the except clause of the try block, after the
\* rollback: the non-streaming path re-raises (the router answers 500), the
\* streaming path yields the error event and ends.
FailInsideTry(q, at) ==
    [Rollback(q) EXCEPT !.pc = "done", !.failedAt = at, !.exc = "Exception",
        !.status = IF q.stream THEN StreamStatus ELSE ChatStatus("Exception"),
        !.events = IF q.stream THEN Append(q.events, Event("error", 0, 0, <<>>))
                   ELSE q.events]

\* if request.conversation_id:
HasConversationId(c) == c # NoConversationId /\ c # 0

\* The conversation query without the owner.
FindConversationOfAnyone(visible, id, u) == {c \in visible : c.id = id}

\* The WHERE clause of the conversation query: the id and the owner.
FindConversation(visible, id, u) == {c \in visible : c.id = id /\ c.user = u}

\* ChatService._get_or_create_conversation
GetOrCreateConversation(s) ==
    LET q == req[s]
        found == FindConversation(convs \cup q.pend.convs, q.convArg, q.user)
    IN /\ q.pc = "conv"
       /\ IF HasConversationId(q.convArg)
          THEN /\ IF found = {}
                  THEN req' = [req EXCEPT ![s] =
                          RaiseOutsideTry(q, "ValueError: Conversation not found",
                                          "conversation")]
                  ELSE \E h \in Orderings({m \in msgs : m.conv = q.convArg}) :
                          req' = [req EXCEPT ![s] =
                             [q EXCEPT !.pc = "usermsg", !.tx = TxBegin(q),
                                       !.conv = q.convArg, !.loaded = h]]
               /\ UNCHANGED seq
          ELSE /\ \E reply \in TitleReplies :
                  req' = [req EXCEPT ![s] =
                    [q EXCEPT !.pc = "usermsg", !.tx = TxBegin(q),
                        !.conv = seq.conv + 1, !.convNew = TRUE,
                        !.titleReply = reply,
                        !.pend.convs = @ \cup
                            {[id |-> seq.conv + 1, user |-> q.user,
                              title |-> GenerateConversationTitle(q.message, reply),
                              req |-> q.id]}]]
               /\ seq' = [seq EXCEPT !.conv = @ + 1]
       /\ UNCHANGED <<now, plans, subs, logs, convs, msgs, nreq, view, titled, accounts>>

UserMessageOf(q) == CHOOSE m \in msgs \cup q.pend.msgs : m.id = q.umsg

\* The user message added to the session twice, as two rows.
AddUserMessageTwice(s) ==
    LET q == req[s]
        row == [id |-> seq.msg + 1, conv |-> q.conv, kind |-> "user",
                content |-> q.message, at |-> TxBegin(q), req |-> q.id]
    IN /\ q.pc = "usermsg"
       /\ req' = [req EXCEPT ![s] =
                    [q EXCEPT !.pc = "history", !.tx = TxBegin(q), !.umsg = row.id,
                              !.pend.msgs = @ \cup {row, [row EXCEPT !.id = seq.msg + 2]}]]
       /\ seq' = [seq EXCEPT !.msg = @ + 2]
       /\ UNCHANGED <<now, plans, subs, logs, convs, msgs, nreq, view, titled, accounts>>

\* The user message committed at once instead of flushed.
AddUserMessageCommitted(s) ==
    LET q == req[s]
        row == [id |-> seq.msg + 1, conv |-> q.conv, kind |-> "user",
                content |-> q.message, at |-> TxBegin(q), req |-> q.id]
    IN /\ q.pc = "usermsg"
       /\ req' = [req EXCEPT ![s] =
                    [q EXCEPT !.pc = "history", !.tx = NoTx, !.umsg = row.id,
                              !.pend = EmptyPend]]
       /\ convs' = convs \cup q.pend.convs
       /\ msgs' = msgs \cup q.pend.msgs \cup {row}
       /\ seq' = [seq EXCEPT !.msg = @ + 1]
       /\ UNCHANGED <<now, plans, subs, logs, nreq, view, titled, accounts>>

\* ChatService._add_user_message: add and flush
AddUserMessage(s) ==
    LET q == req[s]
        row == [id |-> seq.msg + 1, conv |-> q.conv, kind |-> "user",
                content |-> q.message, at |-> TxBegin(q), req |-> q.id]
    IN /\ q.pc = "usermsg"
       /\ req' = [req EXCEPT ![s] =
                    [q EXCEPT !.pc = "history", !.tx = TxBegin(q), !.umsg = row.id,
                              !.pend.msgs = @ \cup {row}]]
       /\ seq' = [seq EXCEPT !.msg = @ + 1]
       /\ UNCHANGED <<now, plans, subs, logs, convs, msgs, nreq, view, titled, accounts>>

\* ChatService._get_conversation_messages, then the formatting and the system
\* message.  A conversation fetched with selectinload carries its messages; one
\* created by this request does not, and reading the attribute is a lazy load:
\* the async session refuses it (MissingGreenlet), a session that allows
\* implicit IO returns the rows flushed so far.
GetConversationMessages(s) ==
    LET q == req[s]
        um == UserMessageOf(q)
        lazy == {m \in msgs \cup q.pend.msgs : m.conv = q.conv}
        next == IF q.stream THEN "meta" ELSE "gen"
    IN /\ q.pc = "history"
       /\ \/ /\ ~q.convNew
             /\ req' = [req EXCEPT ![s] =
                    [q EXCEPT !.pc = next,
                        !.formatted = FormatConversationForLlm(Append(q.loaded, um)),
                        !.ctx = AddSystemMessage(
                                   FormatConversationForLlm(Append(q.loaded, um)))]]
          \/ /\ q.convNew
             /\ req' = [req EXCEPT ![s] =
                    [q EXCEPT !.pc = next,
                        !.formatted = FormatConversationForLlm(
                                         Append(CHOOSE h \in Orderings(lazy) : TRUE, um)),
                        !.ctx = AddSystemMessage(
                                   FormatConversationForLlm(
                                      Append(CHOOSE h \in Orderings(lazy) : TRUE, um)))]]
          \/ /\ q.convNew
             /\ req' = [req EXCEPT ![s] = RaiseOutsideTry(q, "MissingGreenlet", "history")]
       /\ UNCHANGED <<now, plans, subs, logs, convs, msgs, seq, nreq, view, titled, accounts>>

\* The conversation statement or the flush of the user message fails
\* (connection lost, ...): an exception before the try block.
DbErrorOutsideTry(s) ==
    LET q == req[s]
    IN /\ q.pc \in {"conv", "usermsg"}
       /\ req' = [req EXCEPT ![s] = RaiseOutsideTry(q, "DBAPIError", "database")]
       /\ UNCHANGED <<now, plans, subs, logs, convs, msgs, seq, nreq, view, titled, accounts>>

\* process_chat_request: await self.llm_service.generate_response(...)
Generate(s) ==
    LET q == req[s]
    IN /\ q.pc = "gen"
       /\ \E b \in Backends :
             req' = [req EXCEPT ![s] =
                IF b.fail
                THEN FailInsideTry([q EXCEPT !.calls = @ + 1, !.script = b],
                                   "generation")
                ELSE [q EXCEPT !.calls = @ + 1, !.script = b,
                               !.full = Flatten(b.chunks),
                               !.pc = "log"]]
       /\ UNCHANGED <<now, plans, subs, logs, convs, msgs, seq, nreq, view, titled, accounts>>

\* process_chat_request_stream: the metadata event
EmitMetadata(s) ==
    LET q == req[s]
    IN /\ q.pc = "meta"
       /\ req' = [req EXCEPT ![s] =
                    [q EXCEPT !.pc = "open",
                        !.events = Append(@, Event("metadata", q.conv, q.umsg, <<>>))]]
       /\ UNCHANGED <<now, plans, subs, logs, convs, msgs, seq, nreq, view, titled, accounts>>

\* the generate_response_stream call
OpenStream(s) ==
    LET q == req[s]
    IN /\ q.pc = "open"
       /\ \E b \in Backends :
             req' = [req EXCEPT ![s] =
                       [q EXCEPT !.pc = "stream", !.backend = b, !.script = b,
                                 !.calls = @ + 1]]
       /\ UNCHANGED <<now, plans, subs, logs, convs, msgs, seq, nreq, view, titled, accounts>>

\* LLMService.generate_response_stream: a chunk is passed on if it has content
Forwarded(chunk) == chunk # <<>>

\* full_response = chunk
AccumulateLast(full, chunk) == chunk

\* full_response += chunk
Accumulate(full, chunk) == full \o chunk

\* One raw chunk of the backend: accumulated and yielded as a chunk event.
StreamChunk(s) ==
    LET q == req[s]
        c == Head(q.backend.chunks)
    IN /\ q.pc = "stream"
       /\ q.backend.chunks # <<>>
       /\ req' = [req EXCEPT ![s] =
                    IF Forwarded(c)
                    THEN [q EXCEPT !.backend.chunks = Tail(@), !.full = Accumulate(@, c),
                             !.events = Append(@, Event("chunk", 0, 0, c))]
                    ELSE [q EXCEPT !.backend.chunks = Tail(@)]]
       /\ UNCHANGED <<now, plans, subs, logs, convs, msgs, seq, nreq, view, titled, accounts>>

\* The backend's stream ends: normally, or by raising.
StreamEnd(s) ==
    LET q == req[s]
    IN /\ q.pc = "stream"
       /\ q.backend.chunks = <<>>
       /\ req' = [req EXCEPT ![s] =
                    IF q.backend.fail THEN FailInsideTry(q, "generation")
                    ELSE [q EXCEPT !.pc = "log"]]
       /\ UNCHANGED <<now, plans, subs, logs, convs, msgs, seq, nreq, view, titled, accounts>>

\* log_request that also prunes the user's rows older than the minute window.
AddAssistantAndLogPruning(s) ==
    LET q == req[s]
        am == [id |-> seq.msg + 1, conv |-> q.conv, kind |-> "assistant",
               content |-> q.full, at |-> TxBegin(q), req |-> q.id]
        lg == [id |-> seq.log + 1, user |-> q.user, at |-> TxBegin(q), req |-> q.id]
        old == {l \in logs : l.user = q.user /\ l.at < MinuteAgo(now)}
    IN /\ q.pc = "log"
       /\ \/ /\ convs' = convs \cup q.pend.convs
             /\ msgs' = msgs \cup q.pend.msgs \cup {am}
             /\ logs' = ((logs \ old) \cup q.pend.logs) \cup {lg}
             /\ seq' = [seq EXCEPT !.msg = @ + 1, !.log = @ + 1]
             /\ req' = [req EXCEPT ![s] =
                          [q EXCEPT !.pc = "refresh", !.pend = EmptyPend,
                                    !.tx = NoTx, !.amsg = am.id]]
          \/ /\ req' = [req EXCEPT ![s] = FailInsideTry(q, "commit")]
             /\ UNCHANGED <<convs, msgs, logs, seq>>
       /\ UNCHANGED <<now, plans, subs, nreq, view, titled, accounts>>

\* log_request that flushes and does not commit: the rows stay in the session.
AddAssistantAndLogFlushOnly(s) ==
    LET q == req[s]
        am == [id |-> seq.msg + 1, conv |-> q.conv, kind |-> "assistant",
               content |-> q.full, at |-> TxBegin(q), req |-> q.id]
        lg == [id |-> seq.log + 1, user |-> q.user, at |-> TxBegin(q), req |-> q.id]
    IN /\ q.pc = "log"
       /\ seq' = [seq EXCEPT !.msg = @ + 1, !.log = @ + 1]
       /\ req' = [req EXCEPT ![s] =
                    [q EXCEPT !.pc = "refresh", !.amsg = am.id,
                              !.pend.msgs = @ \cup {am}, !.pend.logs = @ \cup {lg}]]
       /\ UNCHANGED <<now, plans, subs, logs, convs, msgs, nreq, view, titled, accounts>>

\* A usage record written under a commit of its own, before the commit of the
\* messages: a failing commit of the messages leaves the usage row behind.
AddAssistantAndLogOwnCommit(s) ==
    LET q == req[s]
        am == [id |-> seq.msg + 1, conv |-> q.conv, kind |-> "assistant",
               content |-> q.full, at |-> TxBegin(q), req |-> q.id]
        lg == [id |-> seq.log + 1, user |-> q.user, at |-> TxBegin(q), req |-> q.id]
    IN /\ q.pc = "log"
       /\ logs' = logs \cup q.pend.logs \cup {lg}
       /\ \/ /\ convs' = convs \cup q.pend.convs
             /\ msgs' = msgs \cup q.pend.msgs \cup {am}
             /\ seq' = [seq EXCEPT !.msg = @ + 1, !.log = @ + 1]
             /\ req' = [req EXCEPT ![s] =
                          [q EXCEPT !.pc = "refresh", !.pend = EmptyPend,
                                    !.tx = NoTx, !.amsg = am.id]]
          \/ /\ req' = [req EXCEPT ![s] = FailInsideTry(q, "commit")]
             /\ seq' = [seq EXCEPT !.log = @ + 1]
             /\ UNCHANGED <<convs, msgs>>
       /\ UNCHANGED <<now, plans, subs, nreq, view, titled, accounts>>

\* _add_assistant_message (add, no flush) and RateLimitService.log_request
\* (add, then commit): the commit publishes every row of the session, or fails.
AddAssistantAndLog(s) ==
    LET q == req[s]
        am == [id |-> seq.msg + 1, conv |-> q.conv, kind |-> "assistant",
               content |-> q.full, at |-> TxBegin(q), req |-> q.id]
        lg == [id |-> seq.log + 1, user |-> q.user, at |-> TxBegin(q), req |-> q.id]
    IN /\ q.pc = "log"
       /\ \/ /\ convs' = convs \cup q.pend.convs
             /\ msgs' = msgs \cup q.pend.msgs \cup {am}
             /\ logs' = logs \cup q.pend.logs \cup {lg}
             /\ seq' = [seq EXCEPT !.msg = @ + 1, !.log = @ + 1]
             /\ req' = [req EXCEPT ![s] =
                          [q EXCEPT !.pc = "refresh", !.pend = EmptyPend,
                                    !.tx = NoTx, !.amsg = am.id]]
          \/ /\ req' = [req EXCEPT ![s] = FailInsideTry(q, "commit")]
             /\ UNCHANGED <<convs, msgs, logs, seq>>
       /\ UNCHANGED <<now, plans, subs, nreq, view, titled, accounts>>

\* await db.commit(); await db.refresh(assistant_message); then the response:
\* the LLMResponse, or the complete event.
RefreshAndRespond(s) ==
    LET q == req[s]
    IN /\ q.pc = "refresh"
       /\ \/ req' = [req EXCEPT ![s] =
                [q EXCEPT !.pc = "done",
                    !.status = IF q.stream THEN StreamStatus ELSE 200,
                    !.events = IF q.stream
                               THEN Append(@, Event("complete", 0, q.amsg, <<>>))
                               ELSE @]]
          \/ req' = [req EXCEPT ![s] = FailInsideTry(q, "refresh")]
       /\ UNCHANGED <<now, plans, subs, logs, convs, msgs, seq, nreq, view, titled, accounts>>

\* The consumer of a streaming response disconnects: the server cancels the
\* task that runs the generator (or closes the generator at its next yield).
\* CancelledError and GeneratorExit are not Exceptions: the except clause of
\* process_chat_request_stream does not run, nothing more is yielded, and the
\* session is closed with whatever it had not committed.
Disconnect(s) ==
    LET q == req[s]
    IN /\ q.stream
       /\ InFlight(q)
       /\ req' = [req EXCEPT ![s] =
                    [CloseSession(q) EXCEPT !.pc = "done", !.failedAt = "cancelled",
                                            !.exc = "CancelledError",
                                            !.status = StreamStatus]]
       /\ UNCHANGED <<now, plans, subs, logs, convs, msgs, seq, nreq, view, titled, accounts>>

\* ------------------------------------------- routes/conversations: get_conversation

\* GET /conversations/{conversation_id} in a session of its own: the
\* conversation of that id and owner with its messages (selectinload over a
\* relationship without order_by), or 404.
GetConversation(u, c) ==
    LET found == FindConversation(convs, c, u)
        rows == {m \in msgs : m.conv = c}
    IN /\ view.n < MaxReads
       /\ \A r \in Slots : ~InFlight(req[r])
       /\ IF found = {}
          THEN view' = [NoView EXCEPT !.op = "get", !.user = u, !.conv = c,
                                      !.status = 404, !.n = view.n + 1, !.after = nreq]
          ELSE \E h \in Orderings(rows) :
                  view' = [op |-> "get", user |-> u, conv |-> c, status |-> 200,
                           messages |-> h, n |-> view.n + 1, after |-> nreq]
       /\ UNCHANGED <<now, plans, subs, logs, convs, msgs, seq, nreq, req, titled, accounts>>

\* ---------------------------------------- routes/conversations: delete_conversation

\* A delete that removes the conversation row and leaves its messages.
DeleteConversationKeepingMessages(u, c) ==
    LET found == FindConversation(convs, c, u)
        answer == [NoView EXCEPT !.op = "delete", !.user = u, !.conv = c,
                                 !.n = view.n + 1, !.after = nreq]
    IN /\ view.n < MaxReads
       /\ \A r \in Slots : ~InFlight(req[r])
       /\ IF found = {}
          THEN /\ view' = [answer EXCEPT !.status = 404]
               /\ UNCHANGED <<convs, msgs>>
          ELSE /\ convs' = convs \ found
               /\ view' = [answer EXCEPT !.status = 200]
               /\ UNCHANGED msgs
       /\ UNCHANGED <<now, plans, subs, logs, seq, nreq, req, titled, accounts>>

\* DELETE /conversations/{conversation_id} in a session of its own: 404 unless
\* a conversation has that id and owner; otherwise db.delete removes the
\* conversation and, by the cascade of Conversation.messages, its messages,
\* and the commit publishes both, or fails and leaves both.
DeleteConversation(u, c) ==
    LET found == FindConversation(convs, c, u)
        answer == [NoView EXCEPT !.op = "delete", !.user = u, !.conv = c,
                                 !.n = view.n + 1, !.after = nreq]
    IN /\ view.n < MaxReads
       /\ \A r \in Slots : ~InFlight(req[r])
       /\ IF found = {}
          THEN /\ view' = [answer EXCEPT !.status = 404]
               /\ UNCHANGED <<convs, msgs>>
          ELSE \/ /\ convs' = convs \ found
                  /\ msgs' = {m \in msgs : m.conv # c}
                  /\ view' = [answer EXCEPT !.status = 200]
               \/ /\ view' = [answer EXCEPT !.status = 500]
                  /\ UNCHANGED <<convs, msgs>>
       /\ UNCHANGED <<now, plans, subs, logs, seq, nreq, req, titled, accounts>>

\* --------------------------------------------------------------------- Spec

Step(s) ==
    \/ CheckSubscription(s)
    \/ CheckDaily(s)
    \/ CheckMinute(s)
    \/ EnsureLookup(s)
    \/ Provision(s)
    \/ GetOrCreateConversation(s)
    \/ AddUserMessage(s)
    \/ GetConversationMessages(s)
    \/ DbErrorOutsideTry(s)
    \/ Generate(s)
    \/ EmitMetadata(s)
    \/ OpenStream(s)
    \/ StreamChunk(s)
    \/ StreamEnd(s)
    \/ AddAssistantAndLog(s)
    \/ RefreshAndRespond(s)
    \/ Disconnect(s)

Next ==
    \/ \E t \in Instants : Tick(t)
    \/ \E s \in Slots, t \in Instants, u \in Users, st \in BOOLEAN,
          c \in ConversationArgs, m \in Texts :
          StartRequest(s, t, u, st, c, m)
    \/ \E s \in Slots : Step(s)
    \/ \E u \in Users, c \in ReadArgs : GetConversation(u, c)

Spec == Init /\ [][Next]_vars

\* Requests arriving while others are being handled: every request has a
\* session and a task of its own, and the tasks interleave at their awaits.
\* A request arrives while every request in flight waits for the generation
\* backend: the await that lasts; the steps of the requests then interleave.
Arrive(s, t, u, st, c, m) ==
    /\ \A r \in Slots : req[r].pc \in {"idle", "done", "gen", "open"}
    /\ Begin(s, t, u, st, c, m)

NextConcurrent ==
    \/ \E t \in Instants : Tick(t)
    \/ \E s \in Slots, t \in Instants, u \in Users, st \in BOOLEAN,
          c \in ConversationArgs, m \in Texts :
          Arrive(s, t, u, st, c, m)
    \/ \E s \in Slots : Step(s)

\* The runs with concurrent requests start with user 1 subscribed and the
\* Free plan in the catalog.
InitConcurrent ==
    /\ Init
    /\ subs = {SeedSubscription}
    /\ SeedFreePlan \in plans

SpecConcurrent == InitConcurrent /\ [][NextConcurrent]_vars

\* ------------------------------------------ routes/auth: verify_email_with_token

\* GET /auth/verify-email?token=...: a token that does not verify is answered
\* 400; a verified account is answered "Email already verified"; otherwise
\* email_verified is set and committed, and the handler then calls
\* rate_limit_service.ensure_free_plan, a method RateLimitService does not
\* have (its method is _ensure_free_plan): the AttributeError is answered 500
\* and no subscription is written.
VerifyEmail(u, valid) ==
    /\ accounts' =
          [accounts EXCEPT ![u] =
              IF ~valid THEN [@ EXCEPT !.verify = 400]
              ELSE IF @.verified THEN [@ EXCEPT !.verify = 200]
              ELSE [@ EXCEPT !.verified = TRUE, !.verify = 500]]
    /\ accounts' # accounts
    /\ UNCHANGED <<now, plans, subs, logs, convs, msgs, seq, nreq, req, view, titled>>

\* Stores to start from where user 1 has a subscription that is switched
\* off, one that ends at 23:59:59, one that starts at midnight, or two active
\* ones on plans with different limits, the later one on the Free plan.  The
\* clock starts at 23:58:59.
InactiveSubscription == [SeedSubscription EXCEPT !.active = FALSE]
EndingSubscription == [SeedSubscription EXCEPT !.end = Midnight - 1]
UpcomingSubscription == [SeedSubscription EXCEPT !.start = Midnight]
LaterSubscription ==
    [id |-> 2, user |-> 1, plan |-> 2, start |-> 10, end |-> NoEnd,
     active |-> TRUE, created |-> 10]

SubscriptionStores ==
    { {InactiveSubscription}, {EndingSubscription}, {UpcomingSubscription},
      {SeedSubscription, LaterSubscription} }

InitSubscriptions ==
    /\ now = StartTime
    /\ plans = {TightPlan, SeedFreePlan}
    /\ subs \in SubscriptionStores
    /\ logs = {SeedLog}
    /\ convs = SeedConversations
    /\ msgs = SeedMessages
    /\ seq = [plan |-> 2, sub |-> 2, log |-> 1, conv |-> 1, msg |-> 1]
    /\ nreq = 0
    /\ req = [s \in Slots |-> IdleReq]
    /\ view = NoView
    /\ titled = NoTitled
    /\ accounts = [u \in Users |-> VerifiedAccount]

SpecSubscriptions == InitSubscriptions /\ [][Next]_vars

\* Chat requests (also with conversation_id 0, an id no row has), reads and
\* deletes of conversations, one after the other, from the store where user 1
\* is subscribed to the plan of two requests a minute and the Free plan is in
\* the catalog.
InitConversations ==
    /\ Init
    /\ plans = {EvenPlan, SeedFreePlan}
    /\ subs = {SeedSubscription}

NextConversations ==
    \/ Next
    \/ \E s \in Slots, t \in Instants, u \in Users, st \in BOOLEAN, m \in Texts :
          StartRequest(s, t, u, st, 0, m)
    \/ \E u \in Users, c \in ReadArgs : DeleteConversation(u, c)

SpecConversations == InitConversations /\ [][NextConversations]_vars

\* The admission checks on their own, up to their answer: requests arrive at
\* any moment, also while another request's check is between two of its
\* statements, and accounts are verified in between.  User 2 has registered
\* and not verified yet; the Free plan is in the catalog or not.
InitAdmission ==
    /\ InitStore
    /\ TightPlan \in plans
    /\ titled = NoTitled
    /\ accounts = [u \in Users |-> IF u = 1 THEN VerifiedAccount ELSE UnverifiedAccount]

NextAdmission ==
    \/ \E s \in Slots, t \in Instants, u \in Users, st \in BOOLEAN,
          c \in ConversationArgs, m \in Texts :
          Begin(s, t, u, st, c, m)
    \/ \E s \in Slots :
          \/ CheckSubscription(s)
          \/ CheckDaily(s)
          \/ CheckMinute(s)
          \/ EnsureLookup(s)
          \/ Provision(s)
    \/ \E u \in Users, valid \in BOOLEAN : VerifyEmail(u, valid)

SpecAdmission == InitAdmission /\ [][NextAdmission]_vars

\* ------------------------------------------------- title derivation on its own

\* Messages to derive titles from: up to MaxMessageWords words of 1, 9 or 12
\* characters (five words of 12 make 64 characters, 12 12 12 9 1 make 50),
\* separated by one of three whitespace runs, with or without whitespace
\* around them.  The i-th word repeats the i-th letter.
Letters == <<"a", "b", "c", "d", "e", "f", "g", "h">>
WordLens == {1, 9, 12}
Separators == { <<" ">>, <<"\t", " ">>, <<"\n">> }
Margins == { <<>>, <<" ">> }

Word(i, n) == [k \in 1..n |-> Letters[i]]

WordsOf(lens) == [i \in 1..Len(lens) |-> Word(i, lens[i])]

RECURSIVE Separated(_, _)
Separated(words, sep) ==
    IF words = <<>> THEN <<>>
    ELSE IF Len(words) = 1 THEN words[1]
    ELSE words[1] \o sep \o Separated(Tail(words), sep)

BuildMessage(lens, sep, margin) == margin \o Separated(WordsOf(lens), sep) \o margin

\* What self.llm.ainvoke does in the title call: what it does in a chat
\* request, or it returns a title of 51 characters.
TitleRepliesAll ==
    TitleReplies \cup
    { [fail |-> FALSE, content |-> [k \in 1..(TitleMaxLen + 1) |-> "t"]] }

TitleInit ==
    /\ now = StartTime
    /\ plans = {TightPlan}
    /\ subs = {SeedSubscription}
    /\ logs = {SeedLog}
    /\ convs = SeedConversations
    /\ msgs = SeedMessages
    /\ seq = [plan |-> 2, sub |-> 1, log |-> 1, conv |-> 1, msg |-> 1]
    /\ nreq = 0
    /\ req = [s \in Slots |-> IdleReq]
    /\ view = NoView
    /\ accounts = [u \in Users |-> VerifiedAccount]
    /\ \E n \in 0..MaxMessageWords : \E lens \in [1..n -> WordLens] :
          \E sep \in Separators, margin \in Margins :
             titled = [NoTitled EXCEPT !.message = BuildMessage(lens, sep, margin),
                                       !.words = WordsOf(lens)]

\* await self.llm_service.generate_conversation_title(message)
DeriveTitle(reply) ==
    /\ ~titled.called
    /\ titled' = [titled EXCEPT !.called = TRUE, !.reply = reply,
                     !.title = GenerateConversationTitle(titled.message, reply)]
    /\ UNCHANGED <<now, plans, subs, logs, convs, msgs, seq, nreq, req, view, accounts>>

TitleNext == \E reply \in TitleRepliesAll : DeriveTitle(reply)

TitleSpec == TitleInit /\ [][TitleNext]_vars

\* =================================================================== claims

\* Rows of the persistent store, and of the request's own session, that the
\* request in q wrote (seed rows carry request number 0).
WrittenConversations(q) == {c \in convs \cup q.pend.convs : c.req = q.id /\ q.id # 0}
WrittenMessages(q) == {m \in msgs \cup q.pend.msgs : m.req = q.id /\ q.id # 0}
WrittenLogs(q) == {l \in logs \cup q.pend.logs : l.req = q.id /\ q.id # 0}
Started(q) == q.pc # "idle"

\* The user's request_logs rows of the current UTC calendar day.
RowsOfToday(u) ==
    {l \in logs : l.user = u /\ l.at \div SecondsPerDay = now \div SecondsPerDay}

\* The user's request_logs rows at most 60 seconds old.
RowsOfLastMinute(u) == {l \in logs : l.user = u /\ now - l.at <= 60}

\* C1: a request whose admission check found no active subscription (the check
\* provisioned the Free plan and returned False) is denied: it resolves or
\* creates no conversation, appends no message, makes no generation call and
\* records no usage.
C1_NoSubscriptionDenies ==
    \A s \in Slots :
        LET q == req[s]
        IN q.admit = "false" =>
              /\ q.conv = 0
              /\ q.calls = 0
              /\ WrittenConversations(q) = {}
              /\ WrittenMessages(q) = {}
              /\ WrittenLogs(q) = {}

\* C2: the daily check denies exactly when the user's rows of the current UTC
\* calendar day number at least requests_per_day: a request denied for the
\* daily limit has that many rows today, a request that passed the daily check
\* has fewer, whatever the age of the rows of the day before.
C2_DailyLimitByUtcDay ==
    \A s \in Slots :
        LET q == req[s]
        IN /\ q.admit = "daily" =>
                 Cardinality(RowsOfToday(q.user)) >= PlanOf(q.plan).rpd
           /\ q.pc \in {"minute", "conv"} /\ q.admit # "false" =>
                 Cardinality(RowsOfToday(q.user)) < PlanOf(q.plan).rpd

\* A request passes the daily check just after midnight although the user has
\* requests_per_day rows less than 24 hours old.
C2_Witness ==
    \E s \in Slots :
        LET q == req[s]
        IN /\ q.pc = "minute"
           /\ Cardinality({l \in logs : l.user = q.user /\ now - l.at < SecondsPerDay})
                 >= PlanOf(q.plan).rpd

\* C3: under the daily limit, the minute check denies exactly when the user's
\* rows of the last 60 seconds number at least requests_per_minute: a request
\* denied for the minute limit has that many, an admitted request has fewer.
C3_MinuteLimitRolling ==
    \A s \in Slots :
        LET q == req[s]
        IN /\ q.admit = "minute" =>
                 Cardinality(RowsOfLastMinute(q.user)) >= PlanOf(q.plan).rpm
           /\ q.pc = "conv" /\ q.admit = "true" =>
                 Cardinality(RowsOfLastMinute(q.user)) < PlanOf(q.plan).rpm

\* A request is admitted again once the rows that filled the window are more
\* than 60 seconds old.
C3_Witness ==
    \E s \in Slots :
        LET q == req[s]
        IN /\ q.pc = "conv" /\ q.admit = "true"
           /\ Cardinality({l \in logs : l.user = q.user}) >= PlanOf(q.plan).rpm

\* C4: a request_logs row of a request exists only once its generation call
\* has completed without raising (never from admission on), there is at most
\* one, and a request whose generation failed has none.
C4_UsageOnlyAfterGeneration ==
    \A s \in Slots :
        LET q == req[s]
        IN /\ WrittenLogs(q) # {} =>
                 /\ q.pc \in {"refresh", "done"}
                 /\ q.calls = 1
                 /\ ~q.script.fail
                 /\ q.backend.chunks = <<>>
                 /\ Cardinality(WrittenLogs(q)) = 1
           /\ q.failedAt = "generation" => WrittenLogs(q) = {}

\* A streaming request whose backend raised after a fragment had been forwarded.
C4_Witness ==
    \E s \in Slots :
        LET q == req[s]
        IN /\ q.pc = "done" /\ q.stream /\ q.failedAt = "generation"
           /\ Len(q.events) = 3
           /\ q.admit = "true"

\* C5: after a non-streaming request whose generation call failed, the store
\* holds no conversation, message or request_logs row of that request, and the
\* answer is the internal-error status.
C5_SyncFailureLeavesNothing ==
    \A s \in Slots :
        LET q == req[s]
        IN q.pc = "done" /\ ~q.stream /\ q.failedAt = "generation" =>
              /\ WrittenConversations(q) = {}
              /\ WrittenMessages(q) = {}
              /\ WrittenLogs(q) = {}
              /\ q.status = 500

\* The generation call of a non-streaming request on an existing conversation
\* failed after the user message had been flushed.
C5_Witness ==
    \E s \in Slots :
        LET q == req[s]
        IN /\ q.pc = "done" /\ ~q.stream /\ q.failedAt = "generation"
           /\ q.umsg # 0 /\ q.convArg = 1 /\ q.calls = 1

NonEmpty(c) == c # <<>>

\* The fragments LLMService.generate_response_stream yields for a backend run.
Fragments(script) == SelectSeq(script.chunks, NonEmpty)

ChunkEvents(fs) == [i \in 1..Len(fs) |-> Event("chunk", 0, 0, fs[i])]

\* C6: a streaming request whose backend raised after k fragments has emitted
\* exactly the metadata event, the k chunk events in backend order and one
\* error event, and none of its messages (user or assistant) is persisted.
C6_StreamFailureSequence ==
    \A s \in Slots :
        LET q == req[s]
        IN q.pc = "done" /\ q.stream /\ q.failedAt = "generation" =>
              /\ q.events = <<Event("metadata", q.conv, q.umsg, <<>>)>>
                               \o ChunkEvents(Fragments(q.script))
                               \o <<Event("error", 0, 0, <<>>)>>
              /\ WrittenMessages(q) = {}

\* The backend raised after one fragment.
C6_Witness ==
    \E s \in Slots :
        LET q == req[s]
        IN /\ q.pc = "done" /\ q.stream /\ q.failedAt = "generation"
           /\ Len(Fragments(q.script)) = 1
           /\ q.umsg # 0

\* C7: a streaming request whose backend yielded f1..fk and completed, and
\* whose commit and refresh succeeded, has emitted exactly the metadata event
\* (conversation id, id of the persisted user message), chunk(f1)..chunk(fk)
\* and the complete event with the assistant message's id, and the persisted
\* assistant message's content is f1 + ... + fk.
C7_StreamSuccessSequence ==
    \A s \in Slots :
        LET q == req[s]
        IN q.pc = "done" /\ q.stream /\ q.failedAt = "none" =>
              /\ q.events = <<Event("metadata", q.conv, q.umsg, <<>>)>>
                               \o ChunkEvents(Fragments(q.script))
                               \o <<Event("complete", 0, q.amsg, <<>>)>>
              /\ \E m \in msgs :
                    /\ m.id = q.umsg /\ m.conv = q.conv /\ m.kind = "user"
              /\ \E m \in msgs :
                    /\ m.id = q.amsg /\ m.conv = q.conv /\ m.kind = "assistant"
                    /\ m.content = Flatten(Fragments(q.script))

\* Two fragments were forwarded and the request completed.
C7_Witness ==
    \E s \in Slots :
        LET q == req[s]
        IN /\ q.pc = "done" /\ q.stream /\ q.failedAt = "none"
           /\ Len(Fragments(q.script)) = 2
           /\ Len(q.events) = 4

IsTerminal(e) == e.type \in {"complete", "error"}

\* C8: the event stream of every finished streaming request holds exactly one
\* terminal event (complete or error), as its last event, whichever step failed.
C8_ExactlyOneTerminalEvent ==
    \A s \in Slots :
        LET q == req[s]
        IN q.pc = "done" /\ q.stream =>
              /\ q.events # <<>>
              /\ IsTerminal(q.events[Len(q.events)])
              /\ \A i \in 1..(Len(q.events) - 1) : ~IsTerminal(q.events[i])

SubscriptionsOf(u) == {sb \in subs : sb.user = u}

\* C10: after the admission check of a user without subscription row, that
\* user has exactly one subscription: active, open-ended, on a plan named Free;
\* a later check of a user who has a subscription provisions nothing, and with
\* no request_logs row of that user it is not denied.
C10_ProvisionOnceThenGrant ==
    /\ \A u \in Users : Cardinality(SubscriptionsOf(u)) <= 1
    /\ \A s \in Slots :
          LET q == req[s]
          IN /\ q.admit = "false" =>
                   \E sb \in subs :
                      /\ SubscriptionsOf(q.user) = {sb}
                      /\ sb.active /\ sb.end = NoEnd
                      /\ \E p \in plans : p.id = sb.plan /\ p.name = "Free"
             /\ q.pc \notin {"idle", "check"} /\ q.admit # "false"
                   /\ SubscriptionsOf(q.user) # {} =>
                   /\ q.pc \notin {"ensure", "provision"}
                   /\ {l \in logs : l.user = q.user /\ l.req # q.id} = {} =>
                         q.admit \notin {"daily", "minute"}

\* The second request of user 2 is admitted on the subscription the first one
\* provisioned, with no request logged for user 2.
C10_Witness ==
    \E s \in Slots :
        LET q == req[s]
        IN /\ q.user = 2 /\ q.id = 2 /\ q.admit = "true"
           /\ {l \in logs : l.user = 2} = {}
           /\ \E sb \in subs : sb.user = 2 /\ sb.id > 1

\* C11: every step leaves at most one subscription_plans row named Free; a
\* plan row is added only when no Free row exists, and the row added is named
\* Free with 5 requests per minute, 100 per day and price 0; a step adds at
\* most one user_subscriptions row and removes none.
C11_ProvisioningIdempotent ==
    [][ /\ Cardinality({p \in plans' : p.name = "Free"}) <= 1
        /\ \A p \in plans' \ plans :
              /\ {f \in plans : f.name = "Free"} = {}
              /\ p.name = "Free" /\ p.rpm = 5 /\ p.rpd = 100 /\ p.price = 0
        /\ Cardinality(subs' \ subs) <= 1
        /\ subs \subseteq subs' ]_vars

\* The step has run for user 1 and for user 2: the first call created the
\* Free plan, the second found it.
C11_Witness ==
    \E a \in subs, b \in subs, p \in plans :
        /\ a.user = 1 /\ b.user = 2 /\ a.id > 1 /\ b.id > 1
        /\ p.id > 2 /\ p.name = "Free" /\ a.plan = p.id /\ b.plan = p.id

\* C12: with at most k = MaxInFlight requests in flight together, the rows of
\* a subscribed user inside the 60-second window, and inside the UTC day,
\* never number more than the plan's limit plus k - 1 (so never more than the
\* limit plus k), whatever the interleaving of the checks and the inserts.
C12_RaceExceedsByAtMostInFlight ==
    \A u \in Users : \A sb \in ActiveSubscriptions(u, now) :
        /\ Cardinality(RowsOfLastMinute(u)) <= PlanOf(sb.plan).rpm + MaxInFlight - 1
        /\ Cardinality(RowsOfToday(u)) <= PlanOf(sb.plan).rpd + MaxInFlight - 1

\* Two requests of one user passed the checks together and both were logged:
\* the window and the day hold more rows than the plan allows.
C12_Witness ==
    \E u \in Users : \E sb \in ActiveSubscriptions(u, now) :
        /\ Cardinality(RowsOfLastMinute(u)) > PlanOf(sb.plan).rpm
        /\ Cardinality(RowsOfToday(u)) > PlanOf(sb.plan).rpd
        /\ \E a \in logs, b \in logs : a.user = u /\ b.user = u /\ a.req = 1 /\ b.req = 2

\* C13: within one conversation the created_at values are strictly increasing
\* in append order (the order of the ids the inserts drew); in particular the
\* assistant message of a request is later than the request's user message.
C13_TimestampsStrictlyIncreasing ==
    \A a \in msgs, b \in msgs :
        a.conv = b.conv /\ a.id < b.id => a.at < b.at

\* C14: a conversation read back after the last request returned holds exactly
\* the conversation's committed messages in append order; read back after a
\* request that created it and completed, it is that request's user message
\* followed by its assistant message.
C14_HistoryRoundTrip ==
    view.status = 200 /\ view.after = nreq =>
        /\ view.messages = SortById({m \in msgs : m.conv = view.conv})
        /\ \A s \in Slots :
              LET q == req[s]
              IN q.pc = "done" /\ q.failedAt = "none" /\ q.convNew
                    /\ q.conv = view.conv /\ q.id = nreq =>
                    /\ Len(view.messages) = 2
                    /\ view.messages[1].id = q.umsg /\ view.messages[1].kind = "user"
                    /\ view.messages[2].id = q.amsg
                    /\ view.messages[2].kind = "assistant"

\* C15: the context built for the generation backend holds exactly one
\* system-role entry: the fixed instructions, as its first entry.
C15_ExactlyOneSystemEntryFirst ==
    \A s \in Slots :
        LET q == req[s]
        IN q.ctx # <<>> =>
              /\ q.ctx[1] = SystemMessage
              /\ \A i \in 2..Len(q.ctx) : q.ctx[i].role # "system"

RECURSIVE Spaced(_)
\* Words with one space between neighbours.
Spaced(words) ==
    IF words = <<>> THEN <<>>
    ELSE IF Len(words) = 1 THEN words[1]
    ELSE Spaced(SubSeq(words, 1, Len(words) - 1)) \o <<" ">> \o words[Len(words)]

\* C16: when the title call fell back (the backend raised or returned an empty
\* title), the title is the message's first five words with single spaces
\* between them; cut to its first 47 characters and "..." if that is longer
\* than 50 characters; "New Conversation" if the message has no word.  The
\* title is never empty and never longer than 50 characters.
C16_FallbackTitle ==
    titled.called /\ (titled.reply.fail \/ titled.reply.content \in {<<>>, <<" ", "\n">>}) =>
        LET five == [i \in 1..(IF Len(titled.words) < 5 THEN Len(titled.words) ELSE 5)
                        |-> titled.words[i]]
            joined == Spaced(five)
        IN /\ titled.title =
                 IF five = <<>> THEN Placeholder
                 ELSE IF Len(joined) > 50
                      THEN SubSeq(joined, 1, 47) \o <<".", ".", ".">>
                      ELSE joined
           /\ Len(titled.title) \in 1..50

\* The backend raised on a message of six words between runs of two whitespace
\* characters, whose first five words make more than 50 characters: the title
\* was cut.
C16_Witness ==
    /\ titled.called /\ titled.reply.fail
    /\ Len(titled.words) = 6
    /\ Len(titled.message) > 70
    /\ Len(titled.title) = 50
    /\ titled.title[50] = "."

\* C17: a streaming request whose consumer disconnected before the complete
\* event has persisted no assistant message and no request_logs row, and the
\* text accumulated so far is in no committed message.
C17_CancelPersistsNothing ==
    \A s \in Slots :
        LET q == req[s]
        IN q.failedAt = "cancelled" =>
              /\ \A i \in 1..Len(q.events) : q.events[i].type # "complete"
              /\ {m \in msgs : m.req = q.id /\ m.kind = "assistant"} = {}
              /\ {l \in logs : l.req = q.id} = {}

\* C18: the admission check of an administrator is never a denial: not for a
\* missing subscription, not for the daily limit, not for the minute limit.
C18_AdminAlwaysGranted ==
    \A s \in Slots :
        LET q == req[s]
        IN q.user \in Admins => q.admit \notin {"false", "daily", "minute"}

\* C19: a request denied for the daily or the minute limit is answered "too
\* many requests" (429) with the plan's limit, a request denied for want of a
\* subscription is answered "payment required" (402), and no denied request is
\* answered with the internal-error status (500).
C19_DenialsDistinctOutcomes ==
    \A s \in Slots :
        LET q == req[s]
        IN /\ q.pc = "done" /\ q.admit = "daily" =>
                 q.status = 429 /\ q.limit = PlanOf(q.plan).rpd
           /\ q.pc = "done" /\ q.admit = "minute" =>
                 q.status = 429 /\ q.limit = PlanOf(q.plan).rpm
           /\ q.pc = "done" /\ q.admit = "false" => q.status = 402
           /\ q.admit \in {"daily", "minute", "false"} => q.status # 500

\* C20: a request whose admission check ended in a denial (no subscription,
\* daily limit, minute limit) has written nothing, then and ever after: no
\* conversation, message or request_logs row of the store or of its session
\* is of that request, and it resolved no conversation.
C20_DenialBeforeAnyWrite ==
    \A s \in Slots :
        LET q == req[s]
        IN q.admit \in {"false", "daily", "minute"} =>
              /\ q.pc \in {"conv", "done"}
              /\ q.umsg = 0 /\ q.amsg = 0
              /\ {c \in convs \cup q.pend.convs : c.req = q.id} = {}
              /\ {m \in msgs \cup q.pend.msgs : m.req = q.id} = {}
              /\ {l \in logs \cup q.pend.logs : l.req = q.id} = {}

\* The committed rows of request number n: its user message, its assistant
\* message, its request_logs row.
PersistedUserMessages(n) == {m \in msgs : m.req = n /\ m.kind = "user"}
PersistedAssistantMessages(n) == {m \in msgs : m.req = n /\ m.kind = "assistant"}
PersistedLogs(n) == {l \in logs : l.req = n}

\* C21: in every state, whichever step of a chat request failed or has not
\* run yet, the store holds of that request either exactly one user message,
\* one assistant message and one request_logs row, or none of the three.
C21_AllOrNothing ==
    \A n \in 1..nreq :
        \/ /\ PersistedUserMessages(n) = {}
           /\ PersistedAssistantMessages(n) = {}
           /\ PersistedLogs(n) = {}
        \/ /\ Cardinality(PersistedUserMessages(n)) = 1
           /\ Cardinality(PersistedAssistantMessages(n)) = 1
           /\ Cardinality(PersistedLogs(n)) = 1

\* A request that failed after its commit keeps all three rows, while a
\* request that failed at its commit has none.
C21_Witness ==
    \E s \in Slots :
        LET q == req[s]
        IN /\ q.pc = "done" /\ q.failedAt = "refresh"
           /\ PersistedUserMessages(q.id) # {}
           /\ PersistedAssistantMessages(q.id) # {}
           /\ PersistedLogs(q.id) # {}
           /\ \E n \in 1..nreq :
                 /\ n # q.id
                 /\ PersistedUserMessages(n) = {}
                 /\ PersistedLogs(n) = {}

\* The user's subscriptions in force at instant t that are on a plan named
\* "Free", read off the rows.
FreeSubscriptionsInForce(S, P, u, t) ==
    {sb \in S : /\ sb.user = u /\ sb.active /\ sb.start <= t
                /\ (sb.end = NoEnd \/ sb.end > t)
                /\ \E p \in P : p.id = sb.plan /\ p.name = "Free"}

\* C22: the verification that turns an unverified account into a verified one
\* leaves the user with an active subscription on the Free plan, and a
\* verification of an account that is verified already changes no
\* subscription.
C22_VerificationProvisionsFree ==
    [][\A u \in Users :
          /\ ~accounts[u].verified /\ accounts'[u].verified
                => FreeSubscriptionsInForce(subs', plans', u, now') # {}
          /\ accounts[u].verified /\ accounts'[u] # accounts[u] => subs' = subs]_vars

\* The user's subscriptions in force at instant t, read off the rows.
SubscriptionsInForce(u, t) ==
    {sb \in subs : /\ sb.user = u /\ sb.active /\ sb.start <= t
                   /\ (sb.end = NoEnd \/ sb.end > t)}

\* Of a set of subscriptions, the ones created last.
MostRecent(S) == {sb \in S : \A other \in S : other.created <= sb.created}

\* C23: a request whose admission check is counting usage counts it against
\* the plan of the most recently created of the user's subscriptions in force.
C23_MostRecentSubscriptionApplies ==
    \A s \in Slots :
        LET q == req[s]
        IN q.pc \in {"daily", "minute"} =>
              \E sb \in MostRecent(SubscriptionsInForce(q.user, now)) : sb.plan = q.plan

\* C24: a request whose admission check is counting usage counts it against
\* the plan of a subscription that is active, has started and has not ended
\* at that moment; a request sent to provisioning has no such subscription,
\* whatever switched-off, future or ended subscriptions the user has.
C24_OnlySubscriptionsInForce ==
    \A s \in Slots :
        LET q == req[s]
            inForce == SubscriptionsInForce(q.user, now)
        IN /\ q.pc \in {"daily", "minute"} => \E sb \in inForce : sb.plan = q.plan
           /\ q.pc = "ensure" => inForce = {}
           /\ q.pc = "ensure" => q.plan = 0

\* The user's second request, of the second the user's only subscription
\* ends, is sent to provisioning.
C24_Witness ==
    /\ now = Midnight - 1
    /\ nreq = 2
    /\ \E s \in Slots :
          /\ req[s].pc = "ensure" /\ req[s].user = 1
          /\ {sb \in subs : sb.user = 1} = {EndingSubscription}

\* The rows of the plan catalog that are named "Free".
PlansNamedFree == {p \in plans : p.name = "Free"}

\* C25: the plan catalog never holds more than one plan named "Free", however
\* the provisioning of concurrent requests interleaves, and no request's
\* lookup of the plan by its name has failed.
C25_AtMostOneFreePlan ==
    /\ Cardinality(PlansNamedFree) <= 1
    /\ \A s \in Slots : req[s].exc # "MultipleResultsFound"

\* The subscriptions of user u that a provisioning wrote, and the requests of
\* user u whose admission check found no subscription and provisioned.
ProvisionedSubscriptions(u) == {sb \in subs : sb.user = u /\ sb # SeedSubscription}
ProvisioningRequests(u) == {s \in Slots : req[s].user = u /\ req[s].admit = "false"}

\* C26: every admission check that found no active subscription has added a
\* subscription of its own, active and on a plan named "Free", whatever
\* another check of the same user has committed in the meantime: the user has
\* as many provisioned subscriptions as checks that provisioned.
C26_EveryProvisioningAddsASubscription ==
    \A u \in Users :
        /\ Cardinality(ProvisionedSubscriptions(u)) = Cardinality(ProvisioningRequests(u))
        /\ \A sb \in ProvisionedSubscriptions(u) :
              /\ sb.active /\ sb.end = NoEnd
              /\ \E p \in PlansNamedFree : p.id = sb.plan

\* Two concurrent first checks of a user have left the user with two active
\* subscriptions on the Free plan.
C26_Witness ==
    \E u \in Users :
        /\ Cardinality(FreeSubscriptionsInForce(subs, plans, u, now)) = 2
        /\ Cardinality(ProvisioningRequests(u)) = 2
        /\ Cardinality(PlansNamedFree) = 1

CompleteEvents(q) == {i \in 1..Len(q.events) : q.events[i].type = "complete"}

\* C27: whenever the event stream of a request holds a complete event, the
\* store holds the assistant message whose id the event carries, with the
\* accumulated text and in the request's conversation, the store holds the
\* request's request_logs row, and the request's session holds nothing
\* uncommitted.
C27_CompleteAfterCommit ==
    \A s \in Slots :
        LET q == req[s]
        IN \A i \in CompleteEvents(q) :
              /\ \E m \in msgs : /\ m.id = q.events[i].msg /\ m.req = q.id
                                 /\ m.kind = "assistant" /\ m.conv = q.conv
                                 /\ m.content = q.full
              /\ \E l \in logs : l.req = q.id /\ l.user = q.user
              /\ q.pend = EmptyPend

C27_Witness ==
    \E s \in Slots :
        LET q == req[s]
        IN /\ q.stream /\ q.pc = "done"
           /\ q.full # <<>>
           /\ CompleteEvents(q) = {Len(q.events)}

ErrorEvents(q) == {i \in 1..Len(q.events) : q.events[i].type = "error"}

EntryOf(m) == [role |-> m.kind, content |-> m.content]

\* The committed messages of the request's conversation older than its user
\* message.
PriorMessages(q) == {m \in msgs : m.conv = q.conv /\ m.id < q.umsg}

\* C29: the messages formatted for the generation backend are the prior
\* messages of the request's conversation, oldest first, followed by the
\* request's user message, once.
C29_ContextOldestFirstThenUserMessage ==
    \A s \in Slots :
        LET q == req[s]
            prior == SortById(PriorMessages(q))
        IN q.ctx # <<>> =>
              /\ Len(q.formatted) = Len(prior) + 1
              /\ \A i \in 1..Len(prior) : q.formatted[i] = EntryOf(prior[i])
              /\ q.formatted[Len(q.formatted)] = [role |-> "user", content |-> q.message]

\* The title call of the request raised, or returned nothing but whitespace.
TitleCallFailed(q) ==
    /\ q.convNew
    /\ \/ q.titleReply.fail
       \/ \A i \in 1..Len(q.titleReply.content) : q.titleReply.content[i] \in Whitespace

C31_GenerationCalledAtMostOnce ==
    [][\A s \in Slots :
          LET q == req[s]
          IN /\ q.calls <= 1 /\ req'[s].calls <= 1
             /\ q.failedAt = "generation" =>
                   /\ q.pc = "done" /\ q.calls = 1
                   /\ req'[s] = q \/ req'[s].id > q.id]_vars

C31_Witness ==
    \E s \in Slots :
        LET q == req[s]
        IN /\ q.failedAt = "generation" /\ q.pc = "done" /\ q.calls = 1
           /\ ~q.stream /\ q.status = 500
           /\ WrittenMessages(q) = {} /\ WrittenLogs(q) = {}

\* A request that has completed: it failed nowhere and was answered.
Succeeded(q) == q.pc = "done" /\ q.failedAt = "none"

\* C32: no step removes or changes a request_logs row; after every step each
\* request has at most one row, a request that has completed has exactly one,
\* of its user, and every row written during the run is of a request that
\* got past its admission check.
C32_LedgerAppendOnly ==
    [][/\ logs \subseteq logs'
       /\ \A n \in 1..nreq' : Cardinality({l \in logs' : l.req = n}) <= 1
       /\ \A l \in logs' : l.req # 0 => l.req \in 1..nreq'
       /\ \A s \in Slots :
             LET q == req'[s]
             IN /\ Succeeded(q) =>
                     Cardinality({l \in logs' : l.req = q.id /\ l.user = q.user}) = 1
                /\ q.admit \in {"daily", "minute"} => {l \in logs' : l.req = q.id} = {}]_vars

\* The second request of user 1 has completed: the ledger holds the row of the
\* first one, its own and the one from before the run.
C32_Witness ==
    \E s \in Slots :
        LET q == req[s]
        IN /\ Succeeded(q) /\ q.id = 2 /\ q.user = 1
           /\ Cardinality({l \in logs : l.user = 1}) = 3

SenderTypes == {"user", "assistant", "system"}

\* C33: no step of a chat request removes or changes a stored message; the
\* stored messages of a completed request are two, both in the conversation
\* the request resolved: its user message, holding the request's text, and
\* after it its assistant message, holding the generated text; every stored
\* message is of kind user, assistant or system.
C33_TwoMessagesPerSuccess ==
    [][/\ msgs \subseteq msgs'
       /\ \A m \in msgs' : m.kind \in SenderTypes
       /\ \A s \in Slots :
             LET q == req'[s]
                 mine == {m \in msgs' : m.req = q.id}
             IN Succeeded(q) =>
                   /\ Cardinality(mine) = 2
                   /\ \A m \in mine : m.conv = q.conv /\ m.id \in {q.umsg, q.amsg}
                   /\ q.umsg < q.amsg
                   /\ \E m \in mine : /\ m.id = q.umsg /\ m.kind = "user"
                                      /\ m.content = q.message
                   /\ \E m \in mine : /\ m.id = q.amsg /\ m.kind = "assistant"
                                      /\ m.content = Flatten(q.script.chunks)
                   /\ \A c \in convs' : c.id = q.conv /\ ~q.convNew => c.id = q.convArg]_vars

\* A completed request into the stored conversation of user 1, whose earlier
\* message is still there, next to a completed conversation of another request.
C33_Witness ==
    \E s \in Slots :
        LET q == req[s]
        IN /\ Succeeded(q) /\ q.conv = 1 /\ q.id = 2
           /\ q.full # <<>>
           /\ SeedMessages \subseteq msgs
           /\ Cardinality({m \in msgs : m.conv = 1}) = 3
           /\ \E m \in msgs : m.conv # 1

\* The requests_per_day and requests_per_minute of the plan of that id.
DailyLimitOf(id) == (CHOOSE p \in plans : p.id = id).rpd
MinuteLimitOf(id) == (CHOOSE p \in plans : p.id = id).rpm

\* C34: the step that denies a request for the minute limit finds the user's
\* rows of the day below the plan's requests_per_day, and the step that
\* denies it for the daily limit gives requests_per_day as the limit: with
\* both counts at their limits the denial is the daily one.
C34_DailyBeforeMinute ==
    [][\A s \in Slots :
          LET q == req[s]
          IN q.pc \in {"daily", "minute"} /\ req'[s].admit \in {"daily", "minute"} =>
                /\ req'[s].admit = "minute" =>
                      /\ Cardinality(RowsOfToday(q.user)) < DailyLimitOf(q.plan)
                      /\ req'[s].limit = MinuteLimitOf(q.plan)
                /\ req'[s].admit = "daily" =>
                      /\ Cardinality(RowsOfToday(q.user)) >= DailyLimitOf(q.plan)
                      /\ req'[s].limit = DailyLimitOf(q.plan)]_vars

\* A request denied for the daily limit while the user's rows of the last
\* minute are at the minute limit too.
C34_Witness ==
    \E s \in Slots :
        LET q == req[s]
        IN /\ q.admit = "daily" /\ q.limit = DailyLimitOf(q.plan)
           /\ Cardinality(RowsOfToday(q.user)) >= DailyLimitOf(q.plan)
           /\ Cardinality({l \in logs : l.user = q.user /\ now - l.at <= 60})
                 >= MinuteLimitOf(q.plan)

\* The step is a delete answered with that status.
DeleteAnswered(st) ==
    /\ view' # view
    /\ view'.op = "delete"
    /\ view'.status = st

\* C35: a step that removes a conversation is a delete by its owner, answered
\* 200: it removes that conversation only, with exactly its messages, and no
\* stored message refers to it afterwards; no step removes a message
\* otherwise; and a delete of a conversation by a user who does not own it is
\* answered 404 and changes no conversation and no message.
C35_OnlyOwnerDeletes ==
    [][/\ \A cv \in convs \ convs' :
             /\ DeleteAnswered(200)
             /\ view'.user = cv.user /\ view'.conv = cv.id
             /\ convs \ convs' = {cv}
             /\ msgs \ msgs' = {m \in msgs : m.conv = cv.id}
             /\ {m \in msgs' : m.conv = cv.id} = {}
       /\ msgs \ msgs' # {} => convs \ convs' # {}
       /\ convs' \ convs # {} => msgs \subseteq msgs'
       /\ \A cv \in convs :
             /\ view' # view /\ view'.op = "delete"
             /\ view'.conv = cv.id /\ view'.user # cv.user
             => /\ view'.status = 404
                /\ convs' = convs /\ msgs' = msgs]_vars

\* User 1 has deleted the stored conversation after a completed request had
\* added two messages to it: none of its three messages is left.
C35_Witness ==
    /\ view.op = "delete" /\ view.status = 200 /\ view.user = 1 /\ view.conv = 1
    /\ {cv \in convs : cv.id = 1} = {}
    /\ {m \in msgs : m.conv = 1} = {}
    /\ \E s \in Slots : Succeeded(req[s]) /\ req[s].conv = 1 /\ req[s].amsg # 0

\* C36: a request that names a conversation id, whichever, has created no
\* conversation: it works on the conversation of that id or has failed with
\* not-found; a request that created a conversation named none and owns it.
C36_SuppliedIdNeverCreates ==
    \A s \in Slots :
        LET q == req[s]
        IN /\ q.convArg # NoConversationId =>
                 /\ ~q.convNew
                 /\ WrittenConversations(q) = {}
                 /\ q.conv # 0 => q.conv = q.convArg
           /\ q.convNew =>
                 /\ q.convArg = NoConversationId
                 /\ \A c \in WrittenConversations(q) : c.user = q.user /\ c.id = q.conv

EndedBadly(q) ==
    q.pc = "done" /\ q.failedAt \in {"admission", "conversation", "history",
                                     "generation", "commit", "refresh", "cancelled"}

\* C38: no step removes or changes a plan or a subscription, and in every
\* state, also after the request failed, was rolled back or was cancelled,
\* the store holds for every request whose admission check provisioned an
\* active subscription of its user on a stored plan named "Free".
C38_ProvisioningStaysCommitted ==
    [][/\ plans \subseteq plans'
       /\ subs \subseteq subs'
       /\ \A s \in Slots :
             LET q == req'[s]
             IN q.admit = "false" =>
                   \E sb \in subs' :
                      /\ sb.user = q.user /\ sb.active /\ sb.end = NoEnd
                      /\ \E p \in plans' : p.id = sb.plan /\ p.name = "Free"]_vars

\* A request that created the Free plan and the subscription, and then failed
\* at its generation call: both rows are in the store, its messages are not.
C38_Witness ==
    \E s \in Slots :
        LET q == req[s]
        IN /\ q.admit = "false" /\ q.freeSeen = 0
           /\ EndedBadly(q) /\ q.failedAt = "generation"
           /\ WrittenMessages(q) = {} /\ WrittenConversations(q) = {}
           /\ \E sb \in subs, p \in plans :
                 /\ sb.user = q.user /\ sb.plan = p.id /\ p.name = "Free"
                 /\ p \notin {SeedFreePlan}

====
